---- MODULE Spec2Model ----
(***************************************************************************)
(* SubSort: the scan orchestrator (subsort/core/scanner.py), the HTTP      *)
(* probe client (subsort/core/http_client.py), the module wrapper          *)
(* (subsort/modules/base.py), the status module (subsort/modules/status.py)*)
(* and the command line (subsort/cli.py, main.py): its checks of the       *)
(* thread count and of the input, the scan scope, the interrupt and the    *)
(* hand-over of the results.                                               *)
(*                                                                         *)
(* Time is counted in ticks of half a second: the backoff base 0.5 s is    *)
(* one tick, a request timeout of T seconds is 2*T ticks and the module    *)
(* deadline of 2*T seconds is 4*T ticks.  asyncio is cooperative: a task   *)
(* runs from one suspension point (a network await, a sleep) to the next   *)
(* without interleaving, so an action is at least one such segment.        *)
(*                                                                         *)
(* subsort/modules/status.py holds the StatusModule class twice, between   *)
(* lines of prose; the later class (lines 74-170) is the one modelled.     *)
(***************************************************************************)
EXTENDS Integers, Sequences, FiniteSets, TLC

VARIABLES
    args,            \* the command line options as typed (cli.py main parameters)
    main_pc,         \* position of cli.main / scan_subdomains
    config,          \* the scanner's config dict (cli.py:267)
    subdomains,      \* the input list handed to scan_subdomains
    enabled_modules, \* SubdomainScanner.enabled_modules (names, in enable order)
    batch_i,         \* loop variable i of scan_subdomains (0-based offset)
    semaphore,       \* asyncio.Semaphore._value of the running scan_batch
    task,            \* one scan_with_semaphore coroutine per input position
    all_results,     \* all_results of scan_subdomains
    clock,           \* int(time.time())
    session,         \* AsyncHttpClient.session: "none", "open" or "closed"
    input_lines,     \* the lines the input file or standard input holds
    output           \* the records handed to the results table or the output file

vars == <<args, main_pc, config, subdomains, enabled_modules, batch_i,
          semaphore, task, all_results, clock, session, input_lines, output>>

-----------------------------------------------------------------------------
(* Bounds of the model *)

MaxTargets == 2    \* longest input list of Spec
MaxClock == 1      \* last reading of the clock

(* Program constants *)

MaxThreads == 200  \* cli.py:202-204
BackoffCap == 10   \* http_client.py:217: 5 seconds, in ticks
MaxName == 253     \* helpers.py:111
MaxLabel == 63     \* helpers.py:126

-----------------------------------------------------------------------------
(* Python values *)

\* None and the empty dict are both falsy; both are the empty mapping here.
None == << >>

\* `if x:` on a dict or None
Truthy(m) == DOMAIN m # {}

UpdateKeepsOld(d, m) ==
    [k \in DOMAIN d \cup DOMAIN m |-> IF k \in DOMAIN d THEN d[k] ELSE m[k]]

\* dict.update: shallow key union, the argument's values win
Update(d, m) ==
    [k \in DOMAIN d \cup DOMAIN m |-> IF k \in DOMAIN m THEN m[k] ELSE d[k]]

Min(a, b) == IF a < b THEN a ELSE b

RECURSIVE Pow2(_)
Pow2(n) == IF n <= 0 THEN 1 ELSE 2 * Pow2(n - 1)

-----------------------------------------------------------------------------
(* cli.main: thread count validation and the config dict *)

ClampThreadsSwapped(threads) ==
    IF threads > MaxThreads THEN threads ELSE MaxThreads

\* cli.py:202-204 (the caller has already excluded threads < 1)
ClampThreads(threads) ==
    IF threads > MaxThreads THEN MaxThreads ELSE threads

\* the default of --user-agent, cli.py:124-125
DefaultUserAgent == "Mozilla/5.0 (Windows NT 10.0; Win64; x64) AppleWebKit/537.36"

MakeConfig(a) ==
    [threads |-> ClampThreads(a.threads), timeout |-> a.timeout,
     retries |-> a.retries, delay |-> a.delay, user_agent |-> a.user_agent]

\* The input source as the command line finds it: the file named by -i
\* (whether it exists, its size, whether open() succeeds) or standard input.
InputFile(exists, size, readable) ==
    [source |-> "file", exists |-> exists, size |-> size, readable |-> readable]

GoodFile   == InputFile(TRUE, 1, TRUE)
NoFile     == InputFile(FALSE, 0, FALSE)
EmptyFile  == InputFile(TRUE, 0, TRUE)
LockedFile == InputFile(TRUE, 1, FALSE)
Stdin      == [source |-> "stdin", exists |-> TRUE, size |-> 0, readable |-> TRUE]

\* helpers.py:11-25
validate_file(f) == f.exists /\ f.size > 0

InputFaultIgnoresEmpty(input, lines) ==
    input.source = "file" /\ (~validate_file(input) \/ ~input.readable)

\* cli.py:223-253: the run ends with status 1 when the file cannot be
\* accessed (225-227), reading it raises (234-236) or no target was read
\* (231-233, 251-253); `lines` is what was read
InputFault(input, lines) ==
    IF input.source = "file"
    THEN ~validate_file(input) \/ ~input.readable \/ lines = << >>
    ELSE lines = << >>

\* cli.py:256-264 and 285-344: with no module option the status module is
\* enabled
EnabledModules(a) == IF a.modules = << >> THEN <<"status">> ELSE a.modules

-----------------------------------------------------------------------------
(* Timing, in ticks of 0.5 s *)

ModuleDeadlineThreefold == 6 * config.timeout

\* asyncio.wait_for(..., timeout=config['timeout'] * 2), scanner.py:71
ModuleDeadline == 4 * config.timeout

\* aiohttp.ClientTimeout(total=self.timeout), http_client.py:140
TotalTimeout == 2 * config.timeout

\* connect=min(self.timeout // 2, 10), http_client.py:141; 0 disables it
ConnectTimeout == 2 * Min(config.timeout \div 2, 10)

BackoffUncapped(attempt) == Pow2(attempt)

\* asyncio.sleep(min(0.5 * (2 ** attempt), 5)), http_client.py:217
Backoff(attempt) == Min(Pow2(attempt), BackoffCap)

-----------------------------------------------------------------------------
(* The network: what one attempt (session.request + response.read) can end *)
(* in, and after how many ticks.                                           *)

ClosedHost == "closed.test"   \* nothing listens: every connection is refused at once
SlowHost   == "slow.test"     \* never answers: every attempt runs into the total timeout
OkHost     == "ok.test"       \* answers 200 at once, on https
OpenHost   == "up.test"       \* anything can happen
DownHost   == "down.test"     \* unreachable: every attempt fails, in any way
SchemedHost == "http://up.test"  \* the same host, as a line of standard input

StatusCodes == {"200", "404"}

Fault(kind, d) == [kind |-> kind, code |-> "None", d |-> d]
Response(code, d) == [kind |-> "response", code |-> code, d |-> d]

Outcomes(host) ==
    IF host = ClosedHost THEN {Fault("client_error", 0)}
    ELSE IF host = SlowHost THEN {Fault("timeout", TotalTimeout)}
    ELSE IF host = OkHost THEN {Response("200", 0)}
    ELSE IF host = DownHost
    THEN {Fault("timeout", d) : d \in {ConnectTimeout, TotalTimeout} \ {0}}
         \cup {Fault("client_error", 0), Fault("other", 0)}
    ELSE {Response(c, 0) : c \in StatusCodes}
         \cup {Fault("timeout", d) : d \in {ConnectTimeout, TotalTimeout} \ {0}}
         \cup {Fault("client_error", 0), Fault("other", 0)}

-----------------------------------------------------------------------------
(* AsyncHttpClient *)

\* str.startswith
StartsWith(s, prefix) ==
    Len(s) >= Len(prefix) /\ SubSeq(s, 1, Len(prefix)) = prefix

\* format_url, http_client.py:235-239
format_url(subdomain, scheme) ==
    IF StartsWith(subdomain, "http://") \/ StartsWith(subdomain, "https://")
    THEN subdomain
    ELSE scheme \o "://" \o subdomain

\* the dict make_request returns for a response, http_client.py:172-183
SuccessResult(url, code, attempt) ==
    [url |-> url, status_code |-> code, attempt |-> attempt + 1]

ErrorResultZeroBased(url, kind, attempt) ==
    [error |-> kind, url |-> url, attempts |-> attempt]

\* the dict make_request returns once the last attempt failed,
\* http_client.py:187-213
ErrorResult(url, kind, attempt) ==
    [error |-> kind, url |-> url, attempts |-> attempt + 1]

\* self.default_headers, http_client.py:24-33, of which the User-Agent is
\* followed: the session is made with them (http_client.py:107)
default_headers == [k \in {"User-Agent"} |-> config.user_agent]

\* self.user_agents, http_client.py:36-42
user_agents ==
    {"Mozilla/5.0 (Windows NT 10.0; Win64; x64) AppleWebKit/537.36 (KHTML, like Gecko) Chrome/91.0.4472.124 Safari/537.36",
     "Mozilla/5.0 (Macintosh; Intel Mac OS X 10_15_7) AppleWebKit/537.36 (KHTML, like Gecko) Chrome/91.0.4472.124 Safari/537.36",
     "Mozilla/5.0 (X11; Linux x86_64) AppleWebKit/537.36 (KHTML, like Gecko) Chrome/91.0.4472.124 Safari/537.36",
     "Mozilla/5.0 (Windows NT 10.0; Win64; x64; rv:89.0) Gecko/20100101 Firefox/89.0",
     "Mozilla/5.0 (Macintosh; Intel Mac OS X 10.15; rv:89.0) Gecko/20100101 Firefox/89.0"}

\* get_random_headers, http_client.py:114-129: what random.choice can make
\* it return
get_random_headers ==
    {Update(default_headers, [k \in {"User-Agent"} |-> user_agent]) :
        user_agent \in user_agents}

\* http_client.py:149-157: the headers an attempt is sent with, those of the
\* request over those of the session
RequestHeaders(custom_headers) ==
    IF Truthy(custom_headers) THEN {Update(default_headers, custom_headers)}
    ELSE {Update(default_headers, headers) : headers \in get_random_headers}

\* make_request, http_client.py:145-147: an attempt makes a session when
\* there is none or it is closed
EnsureSession(s) == IF s # "open" THEN "open" ELSE s

\* get, http_client.py:221-226: the response or None
Get(r) == IF Truthy(r) /\ "status_code" \in DOMAIN r THEN r ELSE None

\* check_both_schemes, http_client.py:249:
\* `response is not None and response.get('status_code')`
Working(response) == Truthy(response) /\ "status_code" \in DOMAIN response

-----------------------------------------------------------------------------
(* StatusModule.scan and BaseModule.safe_scan *)

\* StatusModule defines no categorize_status (nor does BaseModule): the call
\* at status.py:109 raises AttributeError, caught at status.py:114.
HasCategorizeStatus == FALSE

AttributeErrorMsg == "'StatusModule' object has no attribute 'categorize_status'"

\* status.py:89-122, given what check_both_schemes returned
StatusScan(response, final_url) ==
    IF ~Truthy(response)
    THEN [accessible |-> FALSE, status_code |-> "None",
          status_category |-> "unreachable", final_url |-> "None"]
    ELSE IF HasCategorizeStatus
    THEN [accessible |-> TRUE, status_code |-> response.status_code,
          status_category |-> "categorized", final_url |-> final_url,
          response_size |-> 0]
    ELSE [accessible |-> FALSE, status_error |-> AttributeErrorMsg,
          status_category |-> "error"]

\* the names that run StatusModule: 'status' and the placeholders, of which
\* 'ssl' is taken here (modules/__init__.py:23 and 38-53)
StatusModules == {"status", "ssl"}

\* what TitleModule.scan can return (title.py:58-146)
TitleFields == {[title |-> "Home"]}

-----------------------------------------------------------------------------
(* Python strings: the str methods clean_subdomain and is_valid_subdomain  *)
(* call, character by character.                                           *)

Char(s, i) == SubSeq(s, i, i)

UpperCase == "ABCDEFGHIJKLMNOPQRSTUVWXYZ"
LowerCase == "abcdefghijklmnopqrstuvwxyz"
Digits    == "0123456789"

Chars(s) == {Char(s, i) : i \in 1..Len(s)}

\* [a-zA-Z0-9]
AlNum == Chars(UpperCase) \cup Chars(LowerCase) \cup Chars(Digits)

\* the characters str.strip() removes
Whitespace == {" ", "\t", "\n", "\r"}

LowerChar(c) ==
    LET at == {k \in 1..Len(UpperCase) : Char(UpperCase, k) = c}
    IN  IF at = {} THEN c ELSE Char(LowerCase, CHOOSE k \in at : TRUE)

\* str.lower
lower(s) ==
    LET low[i \in 0..Len(s)] ==
            IF i = 0 THEN "" ELSE low[i - 1] \o LowerChar(Char(s, i))
    IN  low[Len(s)]

\* str.lstrip
lstrip(s, cs) ==
    LET kept == {i \in 1..Len(s) : Char(s, i) \notin cs}
    IN  IF kept = {} THEN ""
        ELSE SubSeq(s, CHOOSE i \in kept : \A j \in kept : i <= j, Len(s))

\* str.rstrip
rstrip(s, cs) ==
    LET kept == {i \in 1..Len(s) : Char(s, i) \notin cs}
    IN  IF kept = {} THEN ""
        ELSE SubSeq(s, 1, CHOOSE i \in kept : \A j \in kept : i >= j)

\* str.strip()
strip(s) == rstrip(lstrip(s, Whitespace), Whitespace)

\* str.endswith
EndsWith(s, suffix) ==
    Len(s) >= Len(suffix) /\ SubSeq(s, Len(s) - Len(suffix) + 1, Len(s)) = suffix

\* str.count for one character
Count(s, c) == Cardinality({i \in 1..Len(s) : Char(s, i) = c})

\* the position of the first character of s that is in cs, or Len(s) + 1
FirstOf(s, cs) ==
    LET at == {i \in 1..Len(s) : Char(s, i) \in cs}
    IN  IF at = {} THEN Len(s) + 1 ELSE CHOOSE i \in at : \A j \in at : i <= j

\* s.split(c)[0] for each c of cs in turn: s up to the first of them
Before(s, cs) == SubSeq(s, 1, FirstOf(s, cs) - 1)

\* str.split(c): the pieces between the occurrences of c
split(s, c) ==
    LET at == {i \in 1..Len(s) : Char(s, i) = c}
        cut(k) == IF k = 0 THEN 0
                  ELSE IF k > Cardinality(at) THEN Len(s) + 1
                  ELSE CHOOSE i \in at : Cardinality({j \in at : j < i}) = k - 1
    IN  [k \in 1..Cardinality(at) + 1 |-> SubSeq(s, cut(k - 1) + 1, cut(k) - 1)]

-----------------------------------------------------------------------------
(* subsort/utils/helpers.py *)

\* urllib.parse.urlparse of a string that starts with http:// or https://:
\* the netloc runs from behind the two slashes to the first of / ? #, the
\* path from there to the first of ? #  (the inputs hold no brackets, for
\* which urlparse can raise)
urlparse(url) ==
    LET rest == SubSeq(url, FirstOf(url, {":"}) + 3, Len(url))
        netloc == Before(rest, {"/", "?", "#"})
    IN  [netloc |-> netloc,
         path |-> Before(SubSeq(rest, Len(netloc) + 1, Len(rest)), {"?", "#"})]

\* helpers.py:74-80: `parsed.netloc or parsed.path` for a line that starts
\* with a scheme in lower case, else the line as it is
WithoutScheme(subdomain) ==
    IF StartsWith(subdomain, "http://") \/ StartsWith(subdomain, "https://")
    THEN IF urlparse(subdomain).netloc # "" THEN urlparse(subdomain).netloc
         ELSE urlparse(subdomain).path
    ELSE subdomain

\* helpers.py:85-87
WithoutPort(subdomain) ==
    IF Count(subdomain, ":") = 1 THEN Before(subdomain, {":"}) ELSE subdomain

\* helpers.py:61-95
clean_subdomain(subdomain) ==
    IF subdomain = "" THEN ""
    ELSE rstrip(strip(lower(WithoutPort(Before(WithoutScheme(subdomain),
                                               {"/", "?", "#"})))),
                {"."})

\* helpers.py:116-118: ^[a-zA-Z0-9][a-zA-Z0-9.-]*[a-zA-Z0-9]$ on a string
\* without a line end
MatchesPattern(s) ==
    /\ Len(s) >= 2
    /\ Char(s, 1) \in AlNum
    /\ Char(s, Len(s)) \in AlNum
    /\ Chars(s) \subseteq AlNum \cup {".", "-"}

\* helpers.py:124-135
ValidLabel(label) ==
    /\ label # "" /\ Len(label) <= MaxLabel
    /\ ~StartsWith(label, "-") /\ ~EndsWith(label, "-")
    /\ Chars(label) \cap AlNum # {}

\* helpers.py:97-141
is_valid_subdomain(subdomain) ==
    /\ subdomain # ""
    /\ Len(subdomain) <= MaxName
    /\ MatchesPattern(subdomain)
    /\ \A k \in 1..Len(split(subdomain, ".")) : ValidLabel(split(subdomain, ".")[k])
    /\ Count(subdomain, ".") >= 1

\* helpers.py:42-46 and cli.py:244-245: empty lines and comments are passed
\* over
Skipped(line) == line = "" \/ StartsWith(line, "#")

\* helpers.py:37-59, for the lines the file holds: each line is stripped
\* and, unless passed over, cleaned; the valid results are kept, in order
read_subdomains_from_file(ls) ==
    SelectSeq([k \in 1..Len(ls) |->
                  IF Skipped(strip(ls[k])) THEN ""
                  ELSE clean_subdomain(strip(ls[k]))],
              LAMBDA subdomain : subdomain # "" /\ is_valid_subdomain(subdomain))

\* cli.py:243-246: the lines of standard input, stripped, as typed
read_stdin(ls) ==
    SelectSeq([k \in 1..Len(ls) |-> strip(ls[k])], LAMBDA line : ~Skipped(line))

-----------------------------------------------------------------------------
(* Initial state: the command line as typed, nothing started *)

N == Len(subdomains)

Hosts == {OpenHost, OkHost, ClosedHost, SlowHost, SchemedHost}

ModuleLists ==
    {<< >>, <<"status">>, <<"status", "title">>, <<"title", "status">>,
     <<"status", "ssl">>}

NewTask ==
    [pc |-> "new", result |-> None, mod |-> 0, scheme |-> "none",
     attempt |-> 0, tries |-> 0, issued |-> 0, elapsed |-> 0,
     fault |-> "none", probe |-> None, ends |-> << >>,
     urls |-> << >>, probes |-> << >>, slept |-> 0, raised |-> "none",
     waited |-> 0, faults |-> << >>, headers |-> None]

\* Fields of a task beyond the coroutine's own variables: tries counts the
\* attempts the current make_request call has put on the wire, issued those
\* of the whole target, elapsed the ticks since the current module started,
\* fault the exception of the latest failed attempt, probe the value
\* make_request returned last, ends which module ended how and what the
\* orchestrator wrote for it, urls and probes the URLs the latest
\* check_both_schemes call asked for and what make_request returned for
\* each, slept the ticks of the inter-request delay, raised the message of
\* the exception the coroutine ended with ("none": it returned), and waited
\* the ticks of the latest backoff sleep of the current make_request call,
\* faults the exceptions its attempts raised, in order, and headers the
\* headers of the attempt on the wire.

\* what the input source can hold: nothing when the file is missing or
\* empty, else some lines
LinesOf(input, Inputs) ==
    IF input.source = "file" /\ ~validate_file(input) THEN {<< >>}
    ELSE IF input.source = "file" THEN Inputs
    ELSE Inputs \cup {<< >>}

InitWith(Args, Inputs) ==
    /\ args \in Args
    /\ input_lines \in LinesOf(args.input, Inputs)
    /\ subdomains = << >>
    /\ main_pc = "cli"
    /\ config = None
    /\ enabled_modules = << >>
    /\ batch_i = 0
    /\ semaphore = 0
    /\ task = << >>
    /\ all_results = << >>
    /\ clock = 0
    /\ session = "none"
    /\ output = << >>

-----------------------------------------------------------------------------
(* cli.main *)

\* AsyncHttpClient.__aenter__, http_client.py:50-53 and 60-88
AEnter(s) == "open"

\* cli.py:223-253: the targets read from the input: those of a file that can
\* be read, cleaned and validated (helpers.py:27-59), or the lines of
\* standard input (cli.py:243-246); nothing when the file cannot be read
ReadInput(input, ls) ==
    IF input.source = "file"
    THEN IF validate_file(input) /\ input.readable
         THEN read_subdomains_from_file(ls)
         ELSE << >>
    ELSE read_stdin(ls)

\* cli.py:201-207, 220-253, 266-344: validate the thread count, read the
\* input, build the config and the scanner, enable the modules; then
\* `async with scanner` opens the session (cli.py:355, scanner.py:190-193)
\* and scan_subdomains begins (scanner.py:128-129), for which scan_batch
\* will make one coroutine per target.
Main ==
    /\ main_pc = "cli"
    /\ LET read == IF args.threads < 1 THEN << >> ELSE ReadInput(args.input, input_lines)
       IN  IF args.threads < 1 \/ InputFault(args.input, read)
           THEN /\ main_pc' = "exit1"
                /\ UNCHANGED <<config, enabled_modules, session, subdomains, task>>
           ELSE /\ main_pc' = "scan"
                /\ subdomains' = read
                /\ task' = [i \in 1..Len(read) |-> NewTask]
                /\ config' = MakeConfig(args)
                /\ enabled_modules' = EnabledModules(args)
                /\ session' = AEnter(session)
    /\ UNCHANGED <<args, input_lines, batch_i, semaphore, all_results, clock, output>>

\* time.time() advances (seen here between two batches only)
Tick ==
    /\ main_pc = "scan"
    /\ clock < MaxClock
    /\ clock' = clock + 1
    /\ UNCHANGED <<args, main_pc, config, subdomains, enabled_modules, batch_i,
                   semaphore, task, all_results, session, input_lines, output>>

-----------------------------------------------------------------------------
(* SubdomainScanner.scan_subdomains and scan_batch *)

\* self.config.get('threads', 50), scanner.py:102 and 129
Threads == config.threads

batch_sizeWholeList == N

\* scanner.py:129
batch_size == Min(Threads, N)

BatchFromStart == {k \in 1..N : k <= batch_i + batch_size}

\* subdomains[i:i + batch_size] as input positions, scanner.py:169
Batch == {k \in 1..N : batch_i < k /\ k <= batch_i + batch_size}

\* scanner.py:168-174 and 102-109: the next batch is cut, scan_batch makes
\* its semaphore and one task per target, and gathers them.
StartBatch ==
    /\ main_pc = "scan"
    /\ batch_i < N
    /\ main_pc' = "gather"
    /\ semaphore' = Threads
    /\ task' = [k \in 1..N |-> IF k \in Batch THEN [task[k] EXCEPT !.pc = "waiting"]
                                ELSE task[k]]
    /\ UNCHANGED <<args, config, subdomains, enabled_modules, batch_i,
                   all_results, clock, session, input_lines, output>>

\* scanner.py:113-122: the record scan_batch keeps for position k: the one
\* the coroutine returned or, when it ended with an exception, a new one
Processed(k) ==
    IF task[k].raised # "none"
    THEN [subdomain |-> subdomains[k], batch_error |-> task[k].raised,
          timestamp |-> clock]
    ELSE task[k].result

RECURSIVE Results(_, _)
\* processed_results for positions from..to, scanner.py:109-124
Results(from, to) ==
    IF from > to THEN << >>
    ELSE <<Processed(from)>> \o Results(from + 1, to)

\* scanner.py:109-124 and 174-175: gather returns once every task of the
\* batch has returned; the batch's records are appended in input order.
EndBatch ==
    /\ main_pc = "gather"
    /\ \A k \in Batch : task[k].pc = "done"
    /\ all_results' = all_results \o Results(batch_i + 1, Min(batch_i + batch_size, N))
    /\ batch_i' = batch_i + batch_size
    /\ main_pc' = "scan"
    /\ UNCHANGED <<args, config, subdomains, enabled_modules, semaphore, task, clock,
                   session, input_lines, output>>

\* scanner.py:187-188
\* range(0, len(subdomains), batch_size), scanner.py:168: a step of 0 is
\* a ValueError
StepZero == batch_size = 0

Return ==
    /\ main_pc = "scan"
    /\ ~StepZero
    /\ batch_i >= N
    /\ main_pc' = "returned"
    /\ UNCHANGED <<args, config, subdomains, enabled_modules, batch_i, semaphore,
                   task, all_results, clock, session, input_lines, output>>

\* where the results go: to the file named by -o or to the console, unless
\* --silent; match_code is the -mc option ("None": not given)
OutMode(file, silent, match_code) ==
    [file |-> file, silent |-> silent, match_code |-> match_code]

\* result.get('status_code')
StatusCodeOf(result) ==
    IF "status_code" \in DOMAIN result THEN result.status_code ELSE "None"

\* OutputManager._filter_by_status_code, output.py:57-68
filter_by_status_code(results, match_code) ==
    IF match_code = "None" THEN results
    ELSE SelectSeq(results, LAMBDA result : StatusCodeOf(result) = match_code)

\* cli.py:368-377: the records that are shown or saved: all of them in the
\* results table on the console (ui.py:116), the filtered ones in the output
\* file (output.py:33-45), none on the console under --silent
Emitted(out, results) ==
    IF ~out.silent /\ ~out.file THEN results
    ELSE IF out.file THEN filter_by_status_code(results, out.match_code)
    ELSE << >>

\* AsyncHttpClient.__aexit__, http_client.py:55-58
AExitLeavesOpen(s) == s

AExit(s) == IF s # "none" THEN "closed" ELSE s

\* cli.py:355-385: scan_subdomains has returned, `async with scanner` closes
\* the session (scanner.py:195-197) and the results are shown or saved.
Exit ==
    /\ main_pc = "returned"
    /\ main_pc' = "exit0"
    /\ session' = AExit(session)
    /\ output' = Emitted(args.out, all_results)
    /\ UNCHANGED <<args, config, subdomains, enabled_modules, batch_i, semaphore,
                   task, all_results, clock, input_lines>>

-----------------------------------------------------------------------------
(* One target: scan_with_semaphore and scan_subdomain *)

Others == <<args, main_pc, config, subdomains, enabled_modules, batch_i,
            all_results, clock, input_lines, output>>

AcquireSlotOffByOne(i) ==
    /\ task[i].pc = "waiting"
    /\ semaphore > 1
    /\ semaphore' = semaphore - 1
    /\ task' = [task EXCEPT ![i] =
            [@ EXCEPT !.pc = "running", !.mod = 1,
                      !.result = [subdomain |-> subdomains[i], timestamp |-> clock]]]
    /\ UNCHANGED session
    /\ UNCHANGED Others

\* `async with semaphore`, scanner.py:105, entered without waiting when a
\* slot is free; scan_subdomain then makes the record, scanner.py:51-54.
AcquireSlot(i) ==
    /\ task[i].pc = "waiting"
    /\ semaphore > 0
    /\ semaphore' = semaphore - 1
    /\ task' = [task EXCEPT ![i] =
            [@ EXCEPT !.pc = "running", !.mod = 1,
                      !.result = [subdomain |-> subdomains[i], timestamp |-> clock]]]
    /\ UNCHANGED session
    /\ UNCHANGED Others

\* make_request up to its first suspension, http_client.py:134-158: with
\* retries + 1 >= 1 the first attempt is issued; otherwise the loop body never
\* runs and line 219 returns None.
BeginRequest(t, subdomain, scheme, headers) ==
    IF config.retries + 1 >= 1
    THEN [t EXCEPT !.pc = "request", !.scheme = scheme, !.attempt = 0,
                   !.tries = 1, !.issued = @ + 1, !.fault = "none", !.probe = None,
                   !.waited = 0, !.faults = << >>, !.headers = headers,
                   !.urls = Append(@, format_url(subdomain, scheme))]
    ELSE [t EXCEPT !.pc = "returned", !.scheme = scheme, !.attempt = 0,
                   !.tries = 0, !.fault = "none", !.probe = None, !.waited = 0,
                   !.faults = << >>,
                   !.urls = Append(@, format_url(subdomain, scheme))]

\* scanner.py:60-77: the loop takes the next enabled module and awaits its
\* safe_scan under wait_for; the status module runs check_both_schemes
\* (status.py:90, http_client.py:243-247), https first.
StartModule(i) ==
    /\ task[i].pc = "running"
    /\ task[i].mod <= Len(enabled_modules)
    /\ \E headers \in RequestHeaders(None) :
          task' = [task EXCEPT ![i] =
              IF enabled_modules[task[i].mod] \in StatusModules
              THEN BeginRequest([@ EXCEPT !.elapsed = 0, !.urls = << >>,
                                          !.probes = << >>],
                                subdomains[i], "https", headers)
              ELSE [@ EXCEPT !.pc = "module", !.elapsed = 0]]
    /\ session' = IF task'[i].issued # task[i].issued THEN EnsureSession(session)
                  ELSE session
    /\ UNCHANGED semaphore
    /\ UNCHANGED Others

NextModuleSkipping(t, record, how, written) ==
    [t EXCEPT !.pc = "running", !.mod = @ + 2, !.result = record,
              !.ends = Append(@, [name |-> enabled_modules[t.mod], how |-> how,
                                  written |-> written]),
              !.scheme = "none", !.attempt = 0, !.tries = 0, !.elapsed = 0,
              !.fault = "none", !.probe = None, !.waited = 0, !.faults = << >>,
              !.headers = None]

\* the for loop of scanner.py:60 moves on to the next module: `record` is
\* the target's record now, `how` and `written` say how the module ended
NextModule(t, record, how, written) ==
    [t EXCEPT !.pc = "running", !.mod = @ + 1, !.result = record,
              !.ends = Append(@, [name |-> enabled_modules[t.mod], how |-> how,
                                  written |-> written]),
              !.scheme = "none", !.attempt = 0, !.tries = 0, !.elapsed = 0,
              !.fault = "none", !.probe = None, !.waited = 0, !.faults = << >>,
              !.headers = None]

MergedReplacing(t, how, module_result) ==
    NextModule(t, IF Truthy(module_result) THEN module_result ELSE t.result,
               how, module_result)

\* scanner.py:79-80: the module invocation returned; a non-empty mapping is
\* merged into the record
Merged(t, how, module_result) ==
    NextModule(t, IF Truthy(module_result) THEN Update(t.result, module_result)
                  ELSE t.result,
               how, module_result)

Marker(key, value) == [k \in {key} |-> value]

TimedOutAborting(t, module_name) ==
    [NextModule(t, Update(t.result, Marker(module_name \o "_timeout", TRUE)),
                "timeout", Marker(module_name \o "_timeout", TRUE))
     EXCEPT !.mod = Len(enabled_modules) + 1]

\* scanner.py:82-84: wait_for ran out
TimedOut(t, module_name) ==
    NextModule(t, Update(t.result, Marker(module_name \o "_timeout", TRUE)),
               "timeout", Marker(module_name \o "_timeout", TRUE))

\* scanner.py:85-87: an exception came out of the module invocation
Failed(t, module_name, message) ==
    NextModule(t, Update(t.result, Marker(module_name \o "_error", message)),
               "escaped", Marker(module_name \o "_error", message))

-----------------------------------------------------------------------------
(* AsyncHttpClient.make_request, one attempt at a time *)

Host(i) == subdomains[i]
Url(i) == format_url(Host(i), task[i].scheme)

\* the message of the exception an attempt raised
ErrorKind(kind) ==
    IF kind = "timeout" THEN "timeout"                               \* line 189
    ELSE IF kind = "client_error" THEN "client_error: cannot connect" \* line 199
    ELSE "unexpected failure"                                        \* line 209

\* http_client.py:151-183: the attempt in flight yields a response before
\* the module's deadline; make_request returns its result dict.
AttemptResponse(i) ==
    /\ task[i].pc = "request"
    /\ \E o \in Outcomes(Host(i)) :
          /\ o.kind = "response"
          /\ task[i].elapsed + o.d <= ModuleDeadline
          /\ task' = [task EXCEPT ![i] =
                 [@ EXCEPT !.pc = "returned", !.elapsed = @ + o.d, !.headers = None,
                           !.probe = SuccessResult(Url(i), o.code, task[i].attempt)]]
    /\ UNCHANGED <<semaphore, session>>
    /\ UNCHANGED Others

HandledOtherEscapes(t, url, kind, d) ==
    IF kind = "other"
    THEN [t EXCEPT !.pc = "raised", !.elapsed = @ + d, !.fault = kind,
                   !.faults = Append(@, kind), !.headers = None]
    ELSE IF t.attempt = config.retries
    THEN [t EXCEPT !.pc = "returned", !.elapsed = @ + d, !.fault = kind,
                   !.faults = Append(@, kind), !.headers = None,
                   !.probe = ErrorResult(url, ErrorKind(kind), t.attempt)]
    ELSE [t EXCEPT !.pc = "backoff", !.elapsed = @ + d, !.fault = kind,
                   !.faults = Append(@, kind), !.headers = None]

HandledOneTooMany(t, url, kind, d) ==
    IF t.attempt = config.retries + 1
    THEN [t EXCEPT !.pc = "returned", !.elapsed = @ + d, !.fault = kind,
                   !.faults = Append(@, kind), !.headers = None,
                   !.probe = ErrorResult(url, ErrorKind(kind), t.attempt)]
    ELSE [t EXCEPT !.pc = "backoff", !.elapsed = @ + d, !.fault = kind,
                   !.faults = Append(@, kind), !.headers = None]

HandledByDuration(t, url, kind, d) ==
    IF t.attempt = config.retries
    THEN [t EXCEPT !.pc = "returned", !.elapsed = @ + d, !.fault = kind,
                   !.faults = Append(@, kind), !.headers = None,
                   !.probe = ErrorResult(url, IF d > ConnectTimeout THEN "slow"
                                              ELSE ErrorKind(kind), t.attempt)]
    ELSE [t EXCEPT !.pc = "backoff", !.elapsed = @ + d, !.fault = kind,
                   !.faults = Append(@, kind), !.headers = None]

HandledNoRetry(t, url, kind, d) ==
    [t EXCEPT !.pc = "returned", !.elapsed = @ + d, !.fault = kind,
              !.faults = Append(@, kind), !.headers = None,
              !.probe = ErrorResult(url, ErrorKind(kind), t.attempt)]

\* the three handlers of make_request, http_client.py:185-217: on the last
\* attempt the error dict is returned, before it the backoff sleep begins.
Handled(t, url, kind, d) ==
    IF t.attempt = config.retries
    THEN [t EXCEPT !.pc = "returned", !.elapsed = @ + d, !.fault = kind,
                   !.faults = Append(@, kind), !.headers = None,
                   !.probe = ErrorResult(url, ErrorKind(kind), t.attempt)]
    ELSE [t EXCEPT !.pc = "backoff", !.elapsed = @ + d, !.fault = kind,
                   !.faults = Append(@, kind), !.headers = None]

\* http_client.py:185-217: the attempt in flight raises (asyncio.TimeoutError,
\* aiohttp.ClientError or any other Exception) before the module's deadline.
AttemptFault(i) ==
    /\ task[i].pc = "request"
    /\ \E o \in Outcomes(Host(i)) :
          /\ o.kind # "response"
          /\ task[i].elapsed + o.d <= ModuleDeadline
          /\ task' = [task EXCEPT ![i] = Handled(@, Url(i), o.kind, o.d)]
    /\ UNCHANGED <<semaphore, session>>
    /\ UNCHANGED Others

\* http_client.py:216-217 then 136-158: the backoff sleep ends before the
\* module's deadline and the next attempt is issued.
BackoffDone(i) ==
    /\ task[i].pc = "backoff"
    /\ task[i].elapsed + Backoff(task[i].attempt) <= ModuleDeadline
    /\ \E headers \in RequestHeaders(None) :
          task' = [task EXCEPT ![i] =
              [@ EXCEPT !.pc = "request", !.attempt = @ + 1, !.tries = @ + 1,
                        !.issued = @ + 1, !.elapsed = @ + Backoff(task[i].attempt),
                        !.waited = Backoff(task[i].attempt), !.headers = headers]]
    /\ session' = IF task'[i].issued # task[i].issued THEN EnsureSession(session)
                  ELSE session
    /\ UNCHANGED semaphore
    /\ UNCHANGED Others

\* make_request returned to get (http_client.py:223-226), get to
\* check_both_schemes (247-254), which returns a working response, tries
\* http after https, or gives up; StatusModule.scan builds its fields
\* (status.py:92-122), safe_scan passes them on (base.py:59) and
\* scan_subdomain merges them (scanner.py:79-80).
ProbeReturned(i) ==
    /\ task[i].pc = "returned"
    /\ \E headers \in RequestHeaders(None) :
          LET response == Get(task[i].probe)
              t == [task[i] EXCEPT !.probes = Append(@, task[i].probe)]
          IN  task' = [task EXCEPT ![i] =
                  IF Working(response)
                  THEN Merged(t, "ok", StatusScan(response, Url(i)))
                  ELSE IF task[i].scheme = "https"
                  THEN BeginRequest(t, subdomains[i], "http", headers)
                  ELSE Merged(t, "ok", StatusScan(None, ""))]
    /\ session' = IF task'[i].issued # task[i].issued THEN EnsureSession(session)
                  ELSE session
    /\ UNCHANGED semaphore
    /\ UNCHANGED Others

-----------------------------------------------------------------------------
(* A module other than status: its network exchange is not followed step   *)
(* by step, only how its safe_scan ends.                                   *)

\* base.py:59 and scanner.py:79-80: scan returns its fields, which are merged
ModuleReturns(i) ==
    /\ task[i].pc = "module"
    /\ \E fields \in TitleFields :
          task' = [task EXCEPT ![i] = Merged(@, "ok", fields)]
    /\ UNCHANGED <<semaphore, session>>
    /\ UNCHANGED Others

ModuleRaisesUnwrapped(i) ==
    /\ task[i].pc = "module"
    /\ task' = [task EXCEPT ![i] =
           NextModule(@, Update(@.result,
                                Marker(enabled_modules[@.mod] \o "_error", "scan failed")),
                      "raised",
                      Marker(enabled_modules[@.mod] \o "_error", "scan failed"))]
    /\ UNCHANGED <<semaphore, session>>
    /\ UNCHANGED Others

\* base.py:58-62: scan raises, safe_scan logs it and returns {};
\* scanner.py:79 then merges nothing
ModuleRaises(i) ==
    /\ task[i].pc = "module"
    /\ task' = [task EXCEPT ![i] = Merged(@, "raised", None)]
    /\ UNCHANGED <<semaphore, session>>
    /\ UNCHANGED Others

\* an exception leaves safe_scan itself (raised inside its handler,
\* base.py:61) and reaches scanner.py:85-87
ModuleEscapes(i) ==
    /\ task[i].pc = "module"
    /\ task' = [task EXCEPT ![i] =
           Failed(@, enabled_modules[task[i].mod], "logging failed")]
    /\ UNCHANGED <<semaphore, session>>
    /\ UNCHANGED Others

-----------------------------------------------------------------------------
(* The module deadline *)

\* the await the module is suspended in can last until the deadline
CanReachDeadline(i) ==
    \/ task[i].pc = "module"
    \/ /\ task[i].pc = "request"
       /\ \E o \in Outcomes(Host(i)) : task[i].elapsed + o.d >= ModuleDeadline
    \/ /\ task[i].pc = "backoff"
       /\ task[i].elapsed + Backoff(task[i].attempt) >= ModuleDeadline

ModuleTimeoutAbortsBatch(i) ==
    /\ task[i].pc \in {"module", "request", "backoff"}
    /\ CanReachDeadline(i)
    /\ task' = [k \in 1..N |->
           IF k \in Batch
           THEN [task[k] EXCEPT !.pc = "done",
                     !.result = [subdomain |-> subdomains[k],
                                 batch_processing_error |-> "timed out",
                                 timestamp |-> clock]]
           ELSE task[k]]
    /\ semaphore' = Threads
    /\ UNCHANGED session
    /\ UNCHANGED Others

\* scanner.py:69-72 and 82-84: wait_for cancels the module at
\* 2 * timeout and the marker is recorded
ModuleTimeout(i) ==
    /\ task[i].pc \in {"module", "request", "backoff"}
    /\ CanReachDeadline(i)
    /\ task' = [task EXCEPT ![i] = TimedOut(@, enabled_modules[task[i].mod])]
    /\ UNCHANGED <<semaphore, session>>
    /\ UNCHANGED Others

-----------------------------------------------------------------------------
(* The end of scan_subdomain *)

\* leaving `async with semaphore`, scanner.py:105-106
Released(t) == [t EXCEPT !.pc = "done"]

FinishScanReleasesFirst(i) ==
    /\ task[i].pc = "running"
    /\ task[i].mod > Len(enabled_modules)
    /\ task' = [task EXCEPT ![i] = Released(@)]
    /\ semaphore' = semaphore + 1
    /\ UNCHANGED session
    /\ UNCHANGED Others

\* scanner.py:89-98: the module loop is over; with a positive delay the task
\* sleeps, else it returns its record and leaves the semaphore.
FinishScan(i) ==
    /\ task[i].pc = "running"
    /\ task[i].mod > Len(enabled_modules)
    /\ IF config.delay > 0
       THEN /\ task' = [task EXCEPT ![i] = [@ EXCEPT !.pc = "delay"]]
            /\ UNCHANGED semaphore
       ELSE /\ task' = [task EXCEPT ![i] = Released(@)]
            /\ semaphore' = semaphore + 1
    /\ UNCHANGED session
    /\ UNCHANGED Others

\* asyncio.sleep(self.config['delay']), scanner.py:91, in ticks
Delay == 2 * config.delay

\* scanner.py:91-98 and 105-106: the delay is over
DelayDone(i) ==
    /\ task[i].pc = "delay"
    /\ task' = [task EXCEPT ![i] = Released([@ EXCEPT !.slept = Delay])]
    /\ semaphore' = semaphore + 1
    /\ UNCHANGED session
    /\ UNCHANGED Others

-----------------------------------------------------------------------------
(* Faults outside the modules: an exception raised by scan_subdomain's own *)
(* statements, such as the logging call of a handler.                      *)

\* where such a statement runs: between two modules (scanner.py:61-62), in
\* the handler of a timeout (83) or of a module's exception (86), or after
\* the loop (97)
CanFault(i) == task[i].pc = "running" \/ CanReachDeadline(i)

ScanFailedMinimal(t, message) ==
    [t EXCEPT !.pc = "done",
              !.result = [subdomain |-> @.subdomain, timestamp |-> @.timestamp,
                          batch_error |-> message]]

\* scanner.py:93-98: the outer handler adds scan_error to the record as it
\* is and scan_subdomain returns it; no further module runs
ScanFailed(t, message) ==
    [t EXCEPT !.pc = "done",
              !.result = Update(@, Marker("scan_error", message))]

\* the exception leaves scan_subdomain and scan_with_semaphore
\* (scanner.py:105-106); gather keeps it as the task's result (109)
TaskFailed(t, message) == [t EXCEPT !.pc = "done", !.raised = message]

\* scanner.py:93-98 and 105-106: the exception is raised inside the try
\* block of scan_subdomain
ScanFault(i) ==
    /\ CanFault(i)
    /\ task[i].mod <= Len(enabled_modules)
    /\ task' = [task EXCEPT ![i] = ScanFailed(@, "handler failed")]
    /\ semaphore' = semaphore + 1
    /\ UNCHANGED session
    /\ UNCHANGED Others

\* scanner.py:94, 97 and 105-106: the exception is raised outside the try
\* block, or again by the outer handler
TaskFault(i) ==
    /\ CanFault(i)
    /\ task' = [task EXCEPT ![i] = TaskFailed(@, "handler failed twice")]
    /\ semaphore' = semaphore + 1
    /\ UNCHANGED session
    /\ UNCHANGED Others

-----------------------------------------------------------------------------
(* The ways out of the scan other than its return *)

CancelIgnored(t) == t

\* asyncio.run cancels the tasks still pending when the interrupt ends the
\* loop: CancelledError is raised at the await a coroutine is suspended in,
\* passes every `except Exception` (http_client.py:185-205, base.py:60,
\* scanner.py:82-93) and ends the coroutine
Cancel(t) ==
    IF t.pc \in {"new", "done"} THEN t ELSE [t EXCEPT !.pc = "cancelled"]

\* main.py:20-23 (SIGINT or SIGTERM: sys.exit(0)) or KeyboardInterrupt,
\* while run_scan is running (cli.py:366)
Interrupt ==
    /\ main_pc \in {"scan", "gather"}
    /\ main_pc' = "interrupted"
    /\ task' = [k \in 1..N |-> Cancel(task[k])]
    /\ UNCHANGED <<args, config, subdomains, enabled_modules, batch_i, semaphore,
                   all_results, clock, session, input_lines, output>>

\* run_scan is unwound through `async with scanner` (cli.py:355,
\* scanner.py:195-197) and the process ends with status 0 (main.py:23,
\* cli.py:387-389) without showing or saving results
Teardown ==
    /\ main_pc = "interrupted"
    /\ main_pc' = "aborted"
    /\ session' = AExit(session)
    /\ UNCHANGED <<args, config, subdomains, enabled_modules, batch_i, semaphore,
                   task, all_results, clock, input_lines, output>>

\* scanner.py:129 and 168: for an empty list batch_size is 0 and range()
\* raises ValueError before the first batch; the exception leaves
\* scan_subdomains, `async with scanner` closes the session
\* (scanner.py:195-197) and the caller fails (cli.py:390-393)
RangeRaises ==
    /\ main_pc = "scan"
    /\ StepZero
    /\ main_pc' = "exit1"
    /\ session' = AExit(session)
    /\ UNCHANGED <<args, config, subdomains, enabled_modules, batch_i, semaphore,
                   task, all_results, clock, input_lines, output>>

\* an exception leaves scan_subdomains between two batches (scanner.py:171,
\* 187), `async with scanner` closes the session (scanner.py:195-197) and
\* the run ends with status 1 (cli.py:390-393)
ScanEscapes ==
    /\ main_pc = "scan"
    /\ main_pc' = "exit1"
    /\ session' = AExit(session)
    /\ UNCHANGED <<args, config, subdomains, enabled_modules, batch_i, semaphore,
                   task, all_results, clock, input_lines, output>>

-----------------------------------------------------------------------------
(* Specifications *)

Next ==
    \/ Main
    \/ Tick
    \/ StartBatch
    \/ EndBatch
    \/ Return
    \/ Exit
    \/ \E i \in 1..N : AcquireSlot(i)
    \/ \E i \in 1..N : StartModule(i)
    \/ \E i \in 1..N : AttemptResponse(i)
    \/ \E i \in 1..N : AttemptFault(i)
    \/ \E i \in 1..N : BackoffDone(i)
    \/ \E i \in 1..N : ProbeReturned(i)
    \/ \E i \in 1..N : ModuleReturns(i)
    \/ \E i \in 1..N : ModuleRaises(i)
    \/ \E i \in 1..N : ModuleEscapes(i)
    \/ \E i \in 1..N : ModuleTimeout(i)
    \/ \E i \in 1..N : FinishScan(i)
    \/ \E i \in 1..N : DelayDone(i)

RECURSIVE SeqsUpTo(_, _)
\* the non-empty lists over S of at most n elements
SeqsUpTo(S, n) ==
    IF n <= 0 THEN {}
    ELSE {<<x>> : x \in S}
         \cup {s \o <<x>> : s \in SeqsUpTo(S, n - 1), x \in S}

Arg(threads, timeout, retries, delay, modules, input) ==
    [threads |-> threads, timeout |-> timeout, retries |-> retries,
     delay |-> delay, modules |-> modules, input |-> input,
     out |-> OutMode(FALSE, FALSE, "None"), user_agent |-> DefaultUserAgent]

\* the whole engine: a few targets under different thread counts
ScanArgs ==
    {Arg(0, 1, 0, 0, <<"status">>, GoodFile),
     Arg(1, 1, 1, 1, <<"status", "title">>, GoodFile),
     [Arg(2, 1, 0, 0, <<"title", "status">>, Stdin)
        EXCEPT !.user_agent = "SubSort-audit/1.0"],
     Arg(250, 1, 0, 1, <<"status", "title">>, GoodFile),
     Arg(1, 1, 0, 0, << >>, NoFile),
     Arg(1, 1, 0, 0, <<"status">>, EmptyFile),
     Arg(2, 1, 0, 0, <<"status">>, LockedFile)}

\* lines as a user writes them: with a scheme in either case, a port, a
\* path, a fragment, capitals, a trailing dot, an empty label, a comment
RawInputs ==
    {<<"# staging", "http://OK.Test:443/path#top">>,
     <<"HTTPS://Foo.Example.com:443/path", "closed.test">>,
     <<"Closed.Test.", "ok.test">>,
     <<"a-b.com">>,
     <<"a..b.com">>}

Init == InitWith(ScanArgs, SeqsUpTo({OkHost, ClosedHost}, MaxTargets) \cup RawInputs)

Spec == Init /\ [][Next]_vars

\* one target, every retry count and timeout
ProbeArgs ==
    [threads : {0, 1}, timeout : {1, 2, 5}, retries : {-1, 0, 1, 2}, delay : {0, 1},
     modules : ModuleLists, input : {Stdin}, out : {OutMode(FALSE, FALSE, "None")},
     user_agent : {DefaultUserAgent}]

InitProbe == InitWith(ProbeArgs, {<<h>> : h \in Hosts})

SpecProbe == InitProbe /\ [][Next]_vars

\* two targets, none of which need answer, under a fair event loop: once the
\* command line has been read, as long as the program can take a step (a
\* coroutine is ready, a network await or a timer is pending), one is
\* eventually taken
LiveArgs ==
    {Arg(1, 1, 1, 1, <<"status", "title">>, GoodFile),
     Arg(2, 1, 0, 0, <<"title", "status">>, Stdin),
     Arg(2, 2, 2, 0, <<"status">>, GoodFile)}

InitLive == InitWith(LiveArgs, {<<a, b>> : a, b \in {OkHost, SlowHost}})

SpecLive == InitLive /\ [][Next]_vars /\ WF_vars(main_pc # "cli" /\ Next)

\* one target that refuses or fails every attempt, with enough retries and
\* a deadline long enough for the backoff to reach its cap
BackoffArgs == {Arg(1, 10, 6, 1, <<"status", "title">>, Stdin)}

InitBackoff == InitWith(BackoffArgs, {<<ClosedHost>>, <<OpenHost>>})

SpecBackoff == InitBackoff /\ [][Next]_vars

\* the same unreachable target twice in one list, under one configuration
TwinArgs == {Arg(2, 2, 1, 1, <<"status", "title">>, Stdin)}

InitTwin == InitWith(TwinArgs, {<<DownHost, DownHost>>, <<OkHost>>})

SpecTwin == InitTwin /\ [][Next]_vars

\* every way of showing or saving the results, with and without -mc
OutputArgs ==
    {[Arg(2, 1, 1, 1, <<"status", "title">>, GoodFile) EXCEPT !.out = out] :
        out \in {OutMode(file, silent, match_code) :
                    file \in BOOLEAN, silent \in BOOLEAN,
                    match_code \in {"None"} \cup StatusCodes}}

InitOutput == InitWith(OutputArgs, SeqsUpTo({OkHost, ClosedHost}, 2))

SpecOutput == InitOutput /\ [][Next]_vars

\* scan_subdomains called with a list of targets as it is, the way
\* run_scan calls it (cli.py:355-364) but without the checks of the command
\* line before it: the empty list and lists with the same target twice
CallArgs ==
    {Arg(1, 1, 0, 0, <<"status">>, Stdin), Arg(2, 1, 1, 1, <<"status">>, Stdin)}

\* a list longer than the ceiling of 2, so that a batch is followed by
\* another one while a slot is free
ThreeTargets == <<OkHost, ClosedHost, OkHost>>

InitCall ==
    /\ args \in CallArgs
    /\ subdomains \in {<< >>, ThreeTargets}
                      \cup SeqsUpTo({OkHost, ClosedHost}, MaxTargets)
    /\ input_lines = subdomains
    /\ main_pc = "scan"
    /\ config = MakeConfig(args)
    /\ enabled_modules = EnabledModules(args)
    /\ batch_i = 0
    /\ semaphore = 0
    /\ task = [i \in 1..Len(subdomains) |-> NewTask]
    /\ all_results = << >>
    /\ clock = 0
    /\ session = AEnter("none")
    /\ output = << >>

NextCall ==
    \/ Tick
    \/ StartBatch
    \/ EndBatch
    \/ Return
    \/ RangeRaises
    \/ Exit
    \/ \E i \in 1..N : AcquireSlot(i)
    \/ \E i \in 1..N : StartModule(i)
    \/ \E i \in 1..N : AttemptResponse(i)
    \/ \E i \in 1..N : AttemptFault(i)
    \/ \E i \in 1..N : BackoffDone(i)
    \/ \E i \in 1..N : ProbeReturned(i)
    \/ \E i \in 1..N : FinishScan(i)
    \/ \E i \in 1..N : DelayDone(i)

SpecCall == InitCall /\ [][NextCall]_vars

\* two targets, with the faults outside the modules and the interrupt
NextFault ==
    \/ Next
    \/ \E i \in 1..N : ScanFault(i)
    \/ \E i \in 1..N : TaskFault(i)
    \/ Interrupt
    \/ Teardown
    \/ ScanEscapes

FaultArgs ==
    {Arg(1, 1, 1, 1, <<"status", "title">>, GoodFile),
     Arg(2, 1, 0, 0, <<"title", "status">>, Stdin),
     Arg(2, 1, 0, 1, <<"status">>, GoodFile)}

InitFault == InitWith(FaultArgs, {<<a, b>> : a, b \in {OkHost, ClosedHost}})

SpecFault == InitFault /\ [][NextFault]_vars

-----------------------------------------------------------------------------
(* Vocabulary of the properties *)

Started(i) == task[i].pc \notin {"new", "waiting"}
Terminal(i) == task[i].pc = "done"

\* between entering and leaving `async with semaphore`
HoldsSlot(i) == Started(i) /\ ~Terminal(i)

Scanning == main_pc \in {"scan", "gather", "returned"}

\* how module number m of target i ended
HowEnded(i, m) == task[i].ends[m].how
Written(i, m) == task[i].ends[m].written
Ran(i) == 1..Len(task[i].ends)

-----------------------------------------------------------------------------
(* C1: every target gets exactly one record, in the running scan and in    *)
(* the returned list, whose 'subdomain' is the target and which has a      *)
(* 'timestamp', whatever the network did and whatever the modules merged.  *)

C1_OneRecordPerTarget ==
    /\ \A i \in 1..N : Started(i) =>
          /\ "subdomain" \in DOMAIN task[i].result
          /\ task[i].result.subdomain = subdomains[i]
          /\ "timestamp" \in DOMAIN task[i].result
    /\ main_pc = "returned" =>
          /\ Len(all_results) = N
          /\ \A i \in 1..N :
                /\ "subdomain" \in DOMAIN all_results[i]
                /\ all_results[i].subdomain = subdomains[i]
                /\ "timestamp" \in DOMAIN all_results[i]

\* a returned scan of two targets: one refused every connection, the other
\* had a module abandoned at its deadline
C1_Witness ==
    /\ main_pc = "returned"
    /\ N = 2
    /\ subdomains[1] = ClosedHost
    /\ all_results[1].accessible = FALSE
    /\ \E m \in Ran(2) : HowEnded(2, m) = "timeout"

-----------------------------------------------------------------------------
(* C2: at every instant of a scan the number of targets holding a slot is  *)
(* at most min(threads as configured, 200).                                *)

C2_SlotCeiling ==
    Scanning =>
        Cardinality({i \in 1..N : HoldsSlot(i)}) <= Min(args.threads, MaxThreads)

\* the ceiling is reached while another target has not been started yet
C2_Witness ==
    /\ Scanning
    /\ Cardinality({i \in 1..N : HoldsSlot(i)}) = args.threads
    /\ \E j \in 1..N : task[j].pc = "new"

-----------------------------------------------------------------------------
(* C3: a module that has not finished at its deadline of 2 * timeout is    *)
(* abandoned (no module runs past the deadline), its <module>_timeout      *)
(* marker is recorded once, the later modules still run, and the fields of *)
(* the modules that returned are all in the record.                        *)

TimeoutKey(name) == name \o "_timeout"
ErrorKey(name) == name \o "_error"

TimeoutKeys == {TimeoutKey(enabled_modules[m]) : m \in 1..Len(enabled_modules)}

C3_ModuleTimeoutIsolated ==
    \A i \in 1..N : Started(i) =>
        /\ task[i].elapsed <= ModuleDeadline
        /\ \A m \in Ran(i) :
              /\ HowEnded(i, m) = "timeout" =>
                    /\ TimeoutKey(enabled_modules[m]) \in DOMAIN task[i].result
                    /\ task[i].result[TimeoutKey(enabled_modules[m])] = TRUE
              /\ HowEnded(i, m) = "ok" =>
                    DOMAIN Written(i, m) \subseteq DOMAIN task[i].result
        /\ Cardinality(DOMAIN task[i].result \cap TimeoutKeys)
             = Cardinality({m \in Ran(i) : HowEnded(i, m) = "timeout"})
        /\ Terminal(i) => Len(task[i].ends) = Len(enabled_modules)

\* the first module was abandoned at its deadline and the second one still
\* ran and returned its fields
C3_Witness ==
    \E i \in 1..N :
        /\ Terminal(i)
        /\ Len(task[i].ends) = 2
        /\ HowEnded(i, 1) = "timeout"
        /\ HowEnded(i, 2) = "ok"
        /\ Truthy(Written(i, 2))

-----------------------------------------------------------------------------
(* C4, as claimed: a module whose scan raises leaves a <module>_error      *)
(* marker in the record.                                                   *)

-----------------------------------------------------------------------------
(* C5: a target's record is decided by what happened to its own modules    *)
(* alone: whenever a module of target A ends (timeout, fault or return),   *)
(* no other target's record changes, and every target reaches the returned *)
(* list with the record its own module outcomes give.                      *)

RECURSIVE Replay(_, _)
Replay(record, log) ==
    IF log = << >> THEN record
    ELSE Replay(IF Truthy(Head(log).written) THEN Update(record, Head(log).written)
                ELSE record,
                Tail(log))

OwnRecord(i) ==
    Replay([subdomain |-> subdomains[i], timestamp |-> task[i].result.timestamp],
           task[i].ends)

C5_State ==
    /\ \A i \in 1..N : Started(i) => task[i].result = OwnRecord(i)
    /\ main_pc = "returned" =>
          \A i \in 1..N :
              /\ Terminal(i)
              /\ Len(task[i].ends) = Len(enabled_modules)
              /\ all_results[i] = OwnRecord(i)

C5_Step ==
    \A i \in 1..N :
        task'[i].ends # task[i].ends =>
            \A j \in (1..N) \ {i} :
                /\ task'[j].result = task[j].result
                /\ task'[j].ends = task[j].ends

C5_FailureIsolation == []C5_State /\ [][C5_Step]_vars

\* the scan returned; one target had a module abandoned and a probe that
\* failed, the other one has the record of an undisturbed scan
C5_Witness ==
    /\ main_pc = "returned"
    /\ N >= 2
    /\ \E a, b \in 1..N :
          /\ a # b
          /\ subdomains[a] = ClosedHost
          /\ \E m \in Ran(a) : HowEnded(a, m) = "timeout"
          /\ subdomains[b] = OkHost
          /\ \A m \in Ran(b) : HowEnded(b, m) = "ok"
          /\ all_results[b].title = "Home"

-----------------------------------------------------------------------------
(* C6: no fault of an attempt leaves make_request: after a fault the call  *)
(* is either sleeping before its next attempt or has returned, and once    *)
(* the last attempt has failed it has returned an error dict naming that   *)
(* fault.                                                                  *)

FaultKinds == {"timeout", "client_error", "other"}

C6_NoFaultEscapes ==
    \A i \in 1..N : Started(i) =>
        /\ task[i].pc # "raised"
        /\ task[i].pc = "backoff" =>
              /\ task[i].fault \in FaultKinds
              /\ task[i].attempt < config.retries
        /\ (/\ task[i].pc = "returned"
            /\ task[i].tries >= 1
            /\ "status_code" \notin DOMAIN task[i].probe) =>
              /\ task[i].attempt = config.retries
              /\ task[i].fault \in FaultKinds
              /\ "error" \in DOMAIN task[i].probe
              /\ task[i].probe.error = ErrorKind(task[i].fault)

\* the third of three attempts raised an exception that is neither a
\* timeout nor a client error, and make_request returned its error dict
C6_Witness ==
    \E i \in 1..N :
        /\ task[i].pc = "returned"
        /\ config.retries = 2
        /\ task[i].tries = 3
        /\ task[i].fault = "other"
        /\ "error" \in DOMAIN task[i].probe

-----------------------------------------------------------------------------
(* C7, as claimed: every value make_request returns has exactly one of     *)
(* 'status_code' and 'error', for every --retries value the command line   *)
(* accepts.                                                                *)

C7_ExactlyOneOfStatusAndError ==
    \A i \in 1..N :
        task[i].pc = "returned" =>
            ("status_code" \in DOMAIN task[i].probe) # ("error" \in DOMAIN task[i].probe)

-----------------------------------------------------------------------------
(* C8: an error dict returned by make_request reports retries + 1          *)
(* attempts, and that many attempts were put on the wire by the call.      *)

C8_ErrorAfterAllAttempts ==
    \A i \in 1..N :
        (task[i].pc = "returned" /\ "error" \in DOMAIN task[i].probe) =>
            /\ task[i].probe.attempts = config.retries + 1
            /\ task[i].tries = config.retries + 1

C8_Witness ==
    \E i \in 1..N :
        /\ task[i].pc = "returned"
        /\ "error" \in DOMAIN task[i].probe
        /\ config.retries = 2
        /\ task[i].probe.attempts = 3
        /\ task[i].tries = 3

-----------------------------------------------------------------------------
(* C9, as claimed: one make_request call issues at most retries + 1        *)
(* attempts, a further attempt only after the previous one failed with a   *)
(* timeout or a transport (client) error, and none after a response.       *)

IssuesAttempt(i) == task'[i].tries = task[i].tries + 1

C9_RetryOnlyAfterTransientStep ==
    \A i \in 1..N :
        IssuesAttempt(i) =>
            /\ task'[i].tries <= config.retries + 1
            /\ task[i].tries >= 1 =>
                  /\ task[i].pc = "backoff"
                  /\ task[i].fault \in {"timeout", "client_error"}

C9_RetryOnlyAfterTransient == [][C9_RetryOnlyAfterTransientStep]_vars

(* C9, amended: one make_request call issues at most retries + 1 attempts, *)
(* a further attempt only after the previous one failed with a timeout, a  *)
(* client error or any other exception, and none after a response.         *)

C9_RetryAfterAnyFaultStep ==
    \A i \in 1..N :
        IssuesAttempt(i) =>
            /\ task'[i].tries <= config.retries + 1
            /\ task[i].tries >= 1 =>
                  /\ task[i].pc = "backoff"
                  /\ task[i].fault \in FaultKinds

C9_RetryAfterAnyFault == [][C9_RetryAfterAnyFaultStep]_vars

\* a second attempt is in flight after the first one raised an exception
\* that is neither a timeout nor a client error
C9_Witness ==
    \E i \in 1..N :
        /\ task[i].pc = "request"
        /\ task[i].tries = 2
        /\ task[i].fault = "other"

-----------------------------------------------------------------------------
(* C10, as claimed: a closed port scanned by the status module alone with  *)
(* retries = 2 sees exactly 3 connection attempts, and the final record    *)
(* has accessible = false and an error kind.                               *)

ClosedPortCase(i) ==
    /\ Started(i)
    /\ Host(i) = ClosedHost
    /\ config.retries = 2
    /\ enabled_modules = <<"status">>

C10_ThreeAttempts ==
    \A i \in 1..N :
        (ClosedPortCase(i) /\ Terminal(i)) =>
            /\ task[i].issued = 3
            /\ "accessible" \in DOMAIN task[i].result
            /\ task[i].result.accessible = FALSE
            /\ "error" \in DOMAIN task[i].result

(* C10, amended: with a request timeout of at least 2 s the closed port    *)
(* sees 3 attempts per scheme, https then http, 6 in all; each of the two  *)
(* make_request calls returns a client_error dict reporting 3 attempts;    *)
(* the final record is exactly the target, the timestamp and the status    *)
(* module's unreachable fields: accessible = false, no status code, no     *)
(* error kind.                                                             *)

C10_ThreeAttemptsPerScheme ==
    \A i \in 1..N :
        (ClosedPortCase(i) /\ config.timeout >= 2) =>
            /\ task[i].pc = "returned" =>
                  /\ task[i].probe = ErrorResult(Url(i), ErrorKind("client_error"), 2)
                  /\ task[i].tries = 3
                  /\ task[i].issued = IF task[i].scheme = "https" THEN 3 ELSE 6
            /\ Terminal(i) =>
                  /\ task[i].issued = 6
                  /\ DOMAIN task[i].result =
                        {"subdomain", "timestamp", "accessible", "status_code",
                         "status_category", "final_url"}
                  /\ task[i].result.accessible = FALSE
                  /\ task[i].result.status_code = "None"
                  /\ task[i].result.status_category = "unreachable"

C10_Witness ==
    \E i \in 1..N :
        /\ ClosedPortCase(i)
        /\ config.timeout >= 2
        /\ Terminal(i)
        /\ task[i].issued = 6
        /\ task[i].result.accessible = FALSE

-----------------------------------------------------------------------------
(* C11, as claimed: check_both_schemes asks for https://target first and   *)
(* for http://target second and for nothing else; it goes on to http only  *)
(* after the https probe returned an error-kind result, and it gives up     *)
(* (returns none) only after both probes returned an error-kind result.    *)

IsErrorResult(r) == "error" \in DOMAIN r

C11_HttpsThenHttp ==
    \A i \in 1..N : Started(i) =>
        /\ Len(task[i].urls) <= 2
        /\ Len(task[i].urls) >= 1 =>
              task[i].urls[1] = "https://" \o subdomains[i]
        /\ Len(task[i].urls) = 2 =>
              /\ task[i].urls[2] = "http://" \o subdomains[i]
              /\ IsErrorResult(task[i].probes[1])
        /\ (Len(task[i].probes) = 2 /\ ~Working(Get(task[i].probes[2]))) =>
              IsErrorResult(task[i].probes[2])

-----------------------------------------------------------------------------
(* C12: within one target the enabled modules run one at a time, in the    *)
(* order they were enabled: the module in flight is the one after those    *)
(* that ended, a module starts only when the record already holds what was *)
(* written for every earlier module, each step ends at most one module,    *)
(* and a finished target has run every enabled module, in enable order.    *)

InFlight(i) == task[i].pc \in {"request", "backoff", "returned", "module"}

NamesRun(i) == [m \in 1..Len(task[i].ends) |-> task[i].ends[m].name]

C12_State ==
    \A i \in 1..N : Started(i) =>
        /\ \A m \in Ran(i) : task[i].ends[m].name = enabled_modules[m]
        /\ (InFlight(i) \/ task[i].pc = "running") =>
              task[i].mod = Len(task[i].ends) + 1
        /\ InFlight(i) => task[i].mod <= Len(enabled_modules)
        /\ task[i].result = OwnRecord(i)
        /\ Terminal(i) => NamesRun(i) = enabled_modules

C12_Step ==
    \A i \in 1..N :
        /\ (Started(i) /\ task'[i].ends # task[i].ends) =>
              /\ InFlight(i)
              /\ Len(task'[i].ends) = Len(task[i].ends) + 1
              /\ SubSeq(task'[i].ends, 1, Len(task[i].ends)) = task[i].ends
              /\ task'[i].mod = task[i].mod + 1
              /\ task'[i].pc = "running"
        /\ (Started(i) /\ ~InFlight(i) /\ task'[i].pc \in {"request", "returned", "module"}) =>
              /\ task[i].pc = "running"
              /\ task'[i].ends = task[i].ends
              /\ task'[i].result = task[i].result
              /\ task'[i].mod = task[i].mod

C12_ModulesInOrder == []C12_State /\ [][C12_Step]_vars

\* title, enabled first, was abandoned at its deadline and its marker was
\* in the record before status, enabled second, started and returned
C12_Witness ==
    \E i \in 1..N :
        /\ Terminal(i)
        /\ NamesRun(i) = <<"title", "status">>
        /\ HowEnded(i, 1) = "timeout"
        /\ HowEnded(i, 2) = "ok"
        /\ TimeoutKey("title") \in DOMAIN task[i].result

-----------------------------------------------------------------------------
(* C13: a record's keys are the target, the timestamp and the union of the *)
(* keys written for its modules (the fields of those that returned, the    *)
(* markers of those that did not), and each key holds the value written    *)
(* for the latest module, in enable order, that wrote it.                  *)

FieldsOf(i) == UNION {DOMAIN Written(i, m) : m \in Ran(i)}

LastWriter(i, k) ==
    CHOOSE m \in Ran(i) :
        /\ k \in DOMAIN Written(i, m)
        /\ \A later \in Ran(i) : k \in DOMAIN Written(i, later) => later <= m

C13_LaterModuleWins ==
    \A i \in 1..N : Started(i) =>
        /\ DOMAIN task[i].result = {"subdomain", "timestamp"} \cup FieldsOf(i)
        /\ task[i].result.subdomain = subdomains[i]
        /\ \A k \in FieldsOf(i) :
              task[i].result[k] = Written(i, LastWriter(i, k))[k]

\* status and its placeholder ssl both returned fields; they disagree on
\* status_category and the record holds ssl's value, and keeps the
\* status_error only status wrote
C13_Witness ==
    \E i \in 1..N :
        /\ Terminal(i)
        /\ NamesRun(i) = <<"status", "ssl">>
        /\ HowEnded(i, 1) = "ok" /\ HowEnded(i, 2) = "ok"
        /\ Written(i, 1).status_category = "error"
        /\ Written(i, 2).status_category = "unreachable"
        /\ task[i].result.status_category = "unreachable"
        /\ "status_error" \in DOMAIN task[i].result
        /\ "final_url" \in DOMAIN task[i].result

-----------------------------------------------------------------------------
(* C14, as claimed: a target whose scan was ended by a fault outside the   *)
(* modules has, in the returned list, a record of exactly the target, the  *)
(* timestamp and batch_error.                                              *)

Faulted(i) == task[i].raised # "none" \/ "scan_error" \in DOMAIN task[i].result

C14_MinimalRecord ==
    main_pc = "returned" =>
        \A i \in 1..N : Faulted(i) =>
            DOMAIN all_results[i] = {"subdomain", "timestamp", "batch_error"}

(* C14, amended: a fault raised inside scan_subdomain's try block ends the *)
(* target's scan with scan_error added to the record, which keeps the      *)
(* target, the timestamp and everything written for the modules that had   *)
(* ended; only an exception that leaves the target's coroutine gives the   *)
(* record of exactly the target, the timestamp and batch_error.  Either    *)
(* way no other target's task is touched and the returned list has one     *)
(* record per target.                                                      *)

C14_State ==
    main_pc = "returned" =>
        /\ Len(all_results) = N
        /\ \A i \in 1..N :
              /\ all_results[i].subdomain = subdomains[i]
              /\ task[i].raised # "none" =>
                    /\ DOMAIN all_results[i] = {"subdomain", "timestamp", "batch_error"}
                    /\ all_results[i].batch_error = task[i].raised
              /\ task[i].raised = "none" =>
                    /\ all_results[i] = task[i].result
                    /\ "batch_error" \notin DOMAIN all_results[i]
                    /\ "scan_error" \in DOMAIN all_results[i] =>
                          /\ DOMAIN all_results[i] =
                                {"subdomain", "timestamp", "scan_error"} \cup FieldsOf(i)
                          /\ \A k \in FieldsOf(i) :
                                all_results[i][k] = Written(i, LastWriter(i, k))[k]
              /\ ~Faulted(i) => Len(task[i].ends) = Len(enabled_modules)

C14_Step ==
    \A i \in 1..N :
        (~Faulted(i) /\ Faulted(i)') =>
            /\ Terminal(i)'
            /\ task'[i].ends = task[i].ends
            /\ task'[i].slept = 0
            /\ \A j \in (1..N) \ {i} : task'[j] = task[j]
            /\ UNCHANGED <<main_pc, all_results, batch_i>>

C14_FaultKeepsRecord == []C14_State /\ [][C14_Step]_vars

\* the scan returned: the first target's scan ended in scan_error after its
\* first module had written its fields, which the record keeps; the second
\* target's coroutine raised; a later batch was still scanned
C14_Witness ==
    /\ main_pc = "returned"
    /\ N = 2
    /\ "scan_error" \in DOMAIN all_results[1]
    /\ Len(task[1].ends) = 1
    /\ Len(enabled_modules) = 2
    /\ "accessible" \in DOMAIN all_results[1]
    /\ "batch_error" \in DOMAIN all_results[2]
    /\ batch_size = 1

-----------------------------------------------------------------------------
(* C15: with a positive delay a target's task whose module loop ran to    *)
(* its end sleeps that long after its last module has ended and while it   *)
(* still holds its slot: the slot is released only by the step that ends   *)
(* the sleep; with delay 0 there is no sleep and the slot is released as   *)
(* the module loop ends.  The slots out are those of the tasks between     *)
(* acquiring and releasing, sleepers included.                             *)

C15_State ==
    /\ \A i \in 1..N : Started(i) =>
          /\ task[i].pc = "delay" =>
                /\ config.delay > 0
                /\ Len(task[i].ends) = Len(enabled_modules)
                /\ task[i].slept = 0
          /\ (Terminal(i) /\ ~Faulted(i)) =>
                task[i].slept = IF config.delay > 0 THEN 2 * config.delay ELSE 0
    /\ main_pc = "gather" =>
          semaphore = Threads - Cardinality({i \in 1..N : HoldsSlot(i)})

C15_Step ==
    \A i \in 1..N :
        (~Terminal(i) /\ Terminal(i)' /\ ~Faulted(i)') =>
            /\ semaphore' = semaphore + 1
            /\ task[i].pc = IF config.delay > 0 THEN "delay" ELSE "running"
            /\ Len(task[i].ends) = Len(enabled_modules)

C15_DelayBeforeRelease == []C15_State /\ [][C15_Step]_vars

\* one target has slept and left; another one of the same batch is asleep
\* and holds its slot
C15_Witness ==
    /\ main_pc = "gather"
    /\ config.delay > 0
    /\ \E i, j \in Batch :
          /\ task[i].pc = "delay"
          /\ Terminal(j)
          /\ task[j].slept = 2 * config.delay
    /\ semaphore = Threads - 1

-----------------------------------------------------------------------------
(* C16: each target goes from pending to running to terminal and never     *)
(* back: the only changes of phase are pending to running, by the step     *)
(* that takes a slot, and running to terminal, by the step that gives it   *)
(* back; a terminal target's task and record never change again; targets   *)
(* of earlier batches are terminal, those of later batches pending, and    *)
(* when the scan has returned all are terminal.                            *)

Phase(i) ==
    IF ~Started(i) THEN "pending"
    ELSE IF Terminal(i) THEN "terminal"
    ELSE "running"

C16_State ==
    Scanning =>
        \A i \in 1..N :
            /\ i <= batch_i => Phase(i) = "terminal"
            /\ i > batch_i + batch_size => task[i].pc = "new"
            /\ main_pc = "scan" => task[i].pc \in {"new", "done"}
            /\ main_pc = "returned" => Phase(i) = "terminal"

C16_Step ==
    \A i \in 1..N :
        /\ Phase(i)' # Phase(i) =>
              \/ /\ Phase(i) = "pending" /\ Phase(i)' = "running"
                 /\ semaphore' = semaphore - 1
              \/ /\ Phase(i) = "running" /\ Phase(i)' = "terminal"
                 /\ semaphore' = semaphore + 1
        /\ Phase(i) = "terminal" => task'[i] = task[i]
        /\ Phase(i) = "running" => task'[i].pc \notin {"new", "waiting"}

C16_NoReentry == []C16_State /\ [][C16_Step]_vars

\* the first batch's target is terminal while the second batch's target is
\* running
C16_Witness ==
    /\ main_pc = "gather"
    /\ batch_i = 1
    /\ Phase(1) = "terminal"
    /\ Phase(2) = "running"
    /\ \E m \in Ran(2) : HowEnded(2, m) = "timeout"

-----------------------------------------------------------------------------
(* C17: under a fair event loop, with every attempt ending in a response,  *)
(* a fault or its timeout, a scan that has begun returns: every target is  *)
(* terminal, every slot is back, and the list has one record per target;   *)
(* this also when no host ever answers, the timeouts being markers in the  *)
(* records.                                                                *)

ScanReturned ==
    /\ main_pc = "returned"
    /\ \A i \in 1..N : Terminal(i)
    /\ semaphore = Threads
    /\ Len(all_results) = N

C17_ScanReturns == (main_pc = "scan") ~> ScanReturned

\* the scan of two hosts that never answer has returned; both records carry
\* a timeout marker
C17_Witness ==
    /\ ScanReturned
    /\ N = 2
    /\ \A i \in 1..N :
          /\ subdomains[i] = SlowHost
          /\ TimeoutKey("status") \in DOMAIN all_results[i]

-----------------------------------------------------------------------------
(* C18: once an interrupt has arrived during a scan no further attempt is  *)
(* put on the wire and no task or record changes any more, and nothing is  *)
(* handed to the output; the output only ever receives the whole list of a *)
(* scan that returned, whose targets are all terminal and whose records    *)
(* are those the tasks ended with.                                         *)

Interrupted == main_pc \in {"interrupted", "aborted"}

C18_State ==
    /\ Interrupted => output = << >>
    /\ output # << >> =>
          /\ main_pc = "exit0"
          /\ Len(output) = N
          /\ \A i \in 1..N :
                /\ Terminal(i)
                /\ output[i].subdomain = subdomains[i]
                /\ task[i].raised = "none" => output[i] = task[i].result

C18_Step ==
    Interrupted =>
        /\ \A i \in 1..N : task'[i] = task[i]
        /\ UNCHANGED <<all_results, output>>

C18_InterruptStopsProbes == []C18_State /\ [][C18_Step]_vars

\* the run was interrupted while one target had attempts on the wire and
\* another one's record was complete; nothing was output
C18_Witness ==
    /\ main_pc = "aborted"
    /\ output = << >>
    /\ all_results # << >>
    /\ \E i \in 1..N :
          /\ task[i].pc = "cancelled"
          /\ task[i].issued >= 1
          /\ task[i].issued < config.retries + 1

-----------------------------------------------------------------------------
(* C19: the session opened for the scan is open exactly while the scan     *)
(* scope is entered and is closed when the run has left it, whether the    *)
(* scan returned, was interrupted or let an exception out, probing faults  *)
(* or not; a closed session is never opened again.                         *)

InScope == main_pc \in {"scan", "gather", "returned", "interrupted"}

C19_State ==
    /\ InScope <=> session = "open"
    /\ main_pc \in {"exit0", "aborted"} => session = "closed"
    /\ main_pc = "exit1" => session \in {"none", "closed"}
    /\ main_pc = "cli" => session = "none"

C19_Step == session = "closed" => session' = "closed"

C19_SessionClosed == []C19_State /\ [][C19_Step]_vars

\* an exception left the scan after a target's probes had all failed, and
\* the session is closed
C19_Witness ==
    /\ main_pc = "exit1"
    /\ session = "closed"
    /\ \E i \in 1..N :
          /\ Terminal(i)
          /\ subdomains[i] = ClosedHost
          /\ task[i].issued >= 2
          /\ task[i].result.status_category = "unreachable"

-----------------------------------------------------------------------------
(* C20: with a thread count below 1, or an input file that is missing,     *)
(* empty or unreadable, or an input without a single valid target, the run *)
(* goes from the command line straight to exit status 1: no session is     *)
(* opened, no task is started, no attempt is issued, and no record is      *)
(* collected or output.                                                    *)

ConfigFault ==
    \/ args.threads < 1
    \/ /\ args.input.source = "file"
       /\ (~args.input.exists \/ args.input.size = 0 \/ ~args.input.readable)
    \/ subdomains = << >>

C20_ConfigFaultEndsRun ==
    ConfigFault =>
        /\ main_pc \in {"cli", "exit1"}
        /\ session = "none"
        /\ \A i \in 1..N : task[i] = NewTask
        /\ all_results = << >>
        /\ output = << >>

\* the run has ended with status 1 although the thread count is valid and
\* the file can be read: it holds no valid target
C20_Witness ==
    /\ main_pc = "exit1"
    /\ args.threads >= 1
    /\ args.input = GoodFile
    /\ subdomains = << >>

-----------------------------------------------------------------------------
(* C21, as claimed: every target handed to the scanner is lowercase, has   *)
(* no scheme, path, port or fragment, has at most 253 characters and at    *)
(* least one dot, and each of its labels has 1 to 63 characters, letters,  *)
(* digits or hyphens, with no hyphen first or last; this for a file and    *)
(* for standard input, a line that does not normalize to such a target     *)
(* being passed over.                                                      *)

TargetLabel(label) ==
    /\ Len(label) >= 1 /\ Len(label) <= MaxLabel
    /\ Chars(label) \subseteq AlNum \cup {"-"}
    /\ ~StartsWith(label, "-") /\ ~EndsWith(label, "-")

TargetInvariant(s) ==
    /\ lower(s) = s
    /\ Chars(s) \cap {":", "/", "?", "#"} = {}
    /\ Len(s) <= MaxName
    /\ \A k \in 1..Len(split(s, ".")) : TargetLabel(split(s, ".")[k])
    /\ Count(s, ".") >= 1

C21_TargetsNormalized ==
    \A i \in 1..N : TargetInvariant(subdomains[i])

-----------------------------------------------------------------------------
(* C22, as claimed: normalization strips a scheme written in any letter    *)
(* case, the port, the path and the fragment and lowercases the host, so   *)
(* that a line and its lowercase spelling normalize alike and              *)
(* "HTTPS://Foo.Example.com:443/path" gives "foo.example.com"; validation  *)
(* rejects "a..b.com" and accepts "a-b.com".                               *)

C22_NormalizeExamples ==
    \A k \in 1..Len(input_lines) :
        /\ clean_subdomain(input_lines[k]) = clean_subdomain(lower(input_lines[k]))
        /\ input_lines[k] = "HTTPS://Foo.Example.com:443/path" =>
              clean_subdomain(input_lines[k]) = "foo.example.com"
        /\ input_lines[k] = "a..b.com" => ~is_valid_subdomain(input_lines[k])
        /\ input_lines[k] = "a-b.com" => is_valid_subdomain(input_lines[k])

-----------------------------------------------------------------------------
(* C23: the sleep between failed attempt k (counted from 0) and the next   *)
(* attempt lasts at least min(0.5 * 2^k, 5) seconds and less than a second *)
(* more: it is not shorter than the sleep before it and it never exceeds   *)
(* 5 + 1 seconds.  In ticks: 2^k capped at 10, less than 2 more, never     *)
(* more than 12.                                                           *)

C23_State ==
    \A i \in 1..N : Started(i) =>
        /\ task[i].waited <= BackoffCap + 2
        /\ (task[i].pc = "request" /\ task[i].attempt >= 1) =>
              /\ task[i].waited >= Min(Pow2(task[i].attempt - 1), 10)
              /\ task[i].waited < Min(Pow2(task[i].attempt - 1), 10) + 2

C23_Step ==
    \A i \in 1..N :
        (task[i].pc = "backoff" /\ task'[i].pc = "request") =>
            /\ task'[i].attempt = task[i].attempt + 1
            /\ task'[i].waited = task'[i].elapsed - task[i].elapsed
            /\ task'[i].waited >= Min(Pow2(task[i].attempt), 10)
            /\ task'[i].waited < Min(Pow2(task[i].attempt), 10) + 2
            /\ task'[i].waited >= task[i].waited
            /\ task'[i].waited <= 12

C23_BackoffBounded == []C23_State /\ [][C23_Step]_vars

\* the seventh attempt is in flight after a sleep of 5 seconds, the cap,
\* where doubling would have given 16
C23_Witness ==
    \E i \in 1..N :
        /\ task[i].pc = "request"
        /\ task[i].attempt = 6
        /\ task[i].waited = 10
        /\ task[i].elapsed >= 1 + 2 + 4 + 8 + 10 + 10

-----------------------------------------------------------------------------
(* C24: two scans of the same target under one configuration, in which the *)
(* attempts of a probe raised the same faults in the same order, get the   *)
(* same result from make_request, error kind and attempt count included,   *)
(* however long each attempt took; and two scans whose probes returned the *)
(* same results and whose modules ended alike end with the same record,    *)
(* the timestamp apart.                                                    *)

Untimed(record) == [k \in DOMAIN record \ {"timestamp"} |-> record[k]]

HowRun(i) == [m \in 1..Len(task[i].ends) |-> task[i].ends[m].how]

C24_SameFaultsSameError ==
    \A i, j \in 1..N :
        subdomains[i] = subdomains[j] =>
            /\ (/\ task[i].pc = "returned" /\ task[j].pc = "returned"
                /\ task[i].scheme = task[j].scheme
                /\ Len(task[i].faults) = config.retries + 1
                /\ task[i].faults = task[j].faults) =>
                  /\ IsErrorResult(task[i].probe)
                  /\ task[j].probe = task[i].probe
                  /\ task[i].probe.error = ErrorKind(task[i].faults[Len(task[i].faults)])
            /\ (/\ Terminal(i) /\ Terminal(j)
                /\ task[i].probes = task[j].probes
                /\ HowRun(i) = HowRun(j)) =>
                  Untimed(task[i].result) = Untimed(task[j].result)

\* both scans of the target had their https probe fail with a timeout and
\* then a refused connection; one has spent more time on it than the other
C24_Witness ==
    /\ N = 2
    /\ subdomains[1] = DownHost /\ subdomains[2] = DownHost
    /\ task[1].pc = "returned" /\ task[2].pc = "returned"
    /\ task[1].scheme = "https" /\ task[2].scheme = "https"
    /\ task[1].faults = <<"timeout", "client_error">>
    /\ task[2].faults = task[1].faults
    /\ task[1].elapsed # task[2].elapsed
    /\ task[1].probe.error = task[2].probe.error

-----------------------------------------------------------------------------
(* C25, as claimed: with a match code given, every record that is shown or *)
(* saved has that status code, on the console and in the file.             *)

C25_OnlyMatchingEmitted ==
    args.out.match_code # "None" =>
        \A k \in 1..Len(output) :
            /\ "status_code" \in DOMAIN output[k]
            /\ output[k].status_code = args.out.match_code


(* C26  The User-Agent of every request *)

\* the attempts on the wire
OnWire == {i \in 1..N : task[i].pc = "request"}

\* C26: every request that is sent without explicit headers carries the
\* User-Agent that was configured with --user-agent. In the code the header
\* is drawn from user_agents at every attempt, and none of them is the
\* configured one.
C26_ConfiguredUserAgent ==
    \A i \in OnWire : task[i].headers["User-Agent"] = config.user_agent

\* what holds instead: the User-Agent on the wire is one of user_agents
C26_RandomUserAgent ==
    \A i \in OnWire : task[i].headers["User-Agent"] \in user_agents


(* C27  The deadline of a module against a target that never answers *)

\* the target of task i lets every attempt run into the total timeout, and
\* at least one retry is configured
C27_Case(i) == Host(i) = SlowHost /\ config.retries >= 1

\* the module invocations of task i that are over and were probes
C27_Ended(i) ==
    {k \in 1..Len(task[i].ends) : task[i].ends[k].name \in StatusModules}

C27_State ==
    \A i \in 1..N : C27_Case(i) =>
        /\ task[i].pc # "returned"
        /\ Len(task[i].faults) < config.retries + 1
        /\ task[i].scheme # "http"
        /\ \A k \in 1..Len(task[i].urls) : StartsWith(task[i].urls[k], "https://")
        /\ \A k \in C27_Ended(i) :
               LET e == task[i].ends[k]
                   marker == e.name \o "_timeout"
               IN  /\ e.how = "timeout"
                   /\ e.written = Marker(marker, TRUE)
                   /\ marker \in DOMAIN task[i].result
                   /\ task[i].result[marker] = TRUE
        /\ Truthy(task[i].result) =>
               {"accessible", "status_code", "status_category", "status_error"}
                   \cap DOMAIN task[i].result = {}

C27_Step ==
    \A i \in 1..N :
        C27_Case(i) /\ Len(task'[i].ends) > Len(task[i].ends)
                    /\ enabled_modules[task[i].mod] \in StatusModules =>
            /\ task[i].pc = "request"
            /\ task[i].scheme = "https"
            /\ task[i].attempt = 1
            /\ task[i].elapsed = TotalTimeout + Backoff(0)
            /\ task[i].elapsed + TotalTimeout = ModuleDeadline + Backoff(0)

\* C27: against a target whose every attempt lasts the whole total timeout
\* T, with retries >= 1, the module's deadline of 2 * T runs out while the
\* second https attempt is in flight (it would end at 2 * T + 0.5 s): the
\* https probe never completes retries + 1 attempts and never returns, http
\* is never probed, and the record gets <module>_timeout and none of the
\* module's fields.
C27_DeadlineInsideHttps == []C27_State /\ [][C27_Step]_vars

\* the module timed out with exactly one retry configured, where two
\* attempts would have been the whole https sequence
C27_Witness ==
    \E i \in 1..N :
        /\ C27_Case(i) /\ config.retries = 1
        /\ C27_Ended(i) # {}
        /\ task[i].pc = "done"


(* C28  Order and number of the records scan_subdomains returns *)

\* the call of scan_subdomains is over
CallOver == main_pc \notin {"scan", "gather"}

\* C28: for every list of targets, the empty list and lists with duplicates
\* included, scan_subdomains returns, and what it returns has the length of
\* the list with the record of targets[i] at position i, in whatever order
\* the tasks finished. In the code the empty list makes range() raise
\* ValueError, so the call does not return.
C28_OrderAndCount ==
    CallOver =>
        /\ main_pc \in {"returned", "exit0"}
        /\ Len(all_results) = N
        /\ \A i \in 1..N :
              /\ all_results[i] = task[i].result
              /\ all_results[i].subdomain = subdomains[i]

\* what holds of the call for an empty list
C28_EmptyListRaises == CallOver /\ N = 0 => main_pc = "exit1"

\* what holds of the call for every other list
C28_OrderAndCountNonEmpty == N > 0 => C28_OrderAndCount


(* C29  Batches of scan_subdomains *)

\* the batch of target i, counted from 0: targets are cut into consecutive
\* batches of min(ceiling, N)
C29_BatchOf(i) == (i - 1) \div Min(config.threads, N)

\* the tasks suspended in `async with semaphore`
C29_Waiting == {i \in 1..N : task[i].pc = "waiting"}

C29_State ==
    main_pc \in {"scan", "gather", "returned"} =>
        /\ \A i, j \in 1..N :
               C29_BatchOf(j) < C29_BatchOf(i) /\ task[i].pc # "new" => Terminal(j)
        /\ \A i, j \in 1..N :
               C29_BatchOf(j) = C29_BatchOf(i) /\ task[i].pc # "new" =>
                   task[j].pc # "new"
        /\ Cardinality(C29_Waiting) <= semaphore
        /\ main_pc = "returned" => \A i \in 1..N : Terminal(i)

C29_Step ==
    \A i \in 1..N :
        task[i].pc = "waiting" /\ task'[i] # task[i] =>
            task'[i].pc = "running" /\ semaphore > 0

\* C29: the targets are cut into consecutive batches of min(ceiling, N); no
\* target of a batch is started before every target of the batches before
\* it is terminal, free slots or not; a batch never being larger than the
\* ceiling, a task that asks for a slot always finds one free.
C29_BatchBarrier == []C29_State /\ [][C29_Step]_vars

\* of the first batch one target is terminal and the other still running,
\* a slot is free, and the target of the second batch has not been started
C29_Witness ==
    /\ main_pc = "gather"
    /\ N = 3 /\ config.threads = 2
    /\ Terminal(1) /\ Started(2) /\ ~Terminal(2)
    /\ semaphore >= 1
    /\ task[3].pc = "new"


(* C30  What the status module records for a response *)

\* the status module of task i ends in this step with what
\* check_both_schemes returned
C30_ScanEnds(i) ==
    /\ task[i].pc = "returned"
    /\ Len(task'[i].ends) > Len(task[i].ends)

C30_Step ==
    \A i \in 1..N : C30_ScanEnds(i) =>
        LET response == Get(task[i].probe)
            written == task'[i].ends[Len(task'[i].ends)].written
            probes == task'[i].probes
        IN  /\ Working(response) =>
                  /\ written.accessible = TRUE
                  /\ written.status_code = response.status_code
                  /\ task'[i].result.accessible = TRUE
                  /\ task'[i].result.status_code = response.status_code
            /\ written.accessible = FALSE =>
                  \A k \in 1..Len(probes) : ~Working(Get(probes[k]))

\* C30: when resolve_scheme has a response with status code s, the status
\* module writes accessible = true and status_code = s into the record, and
\* it writes accessible = false only when neither scheme gave a response.
\* In the code every response ends in the module's own exception handler,
\* which writes accessible = false and no status code.
C30_ResponseIsRecorded == [][C30_Step]_vars

\* what holds instead: for a response the module records accessible = false
\* and the message of the AttributeError
C30_ResponseIsLost ==
    [][\A i \in 1..N : C30_ScanEnds(i) /\ Working(Get(task[i].probe)) =>
            LET written == task'[i].ends[Len(task'[i].ends)].written
            IN  /\ written.accessible = FALSE
                /\ written.status_error = AttributeErrorMsg
                /\ "status_code" \notin DOMAIN written
                /\ task'[i].result.accessible = FALSE]_vars

====
